---- MODULE Spec2Model ----
(***************************************************************************)
(* Red/black tree engine of libswoc (swoc++/src/RBTree.cc).                *)
(*                                                                         *)
(* Nodes are intrusive: every node carries _color, _parent, _left, _right. *)
(* A node is identified with its key, Nil (0) is the null pointer.  The    *)
(* derived node of the model caches its subtree size in structure_fixup.   *)
(***************************************************************************)
EXTENDS Integers, Naturals, Sequences, FiniteSets, TLC

\* Number of node objects (keys 1..MaxKey) the caller owns.
MaxKey == 8

Nil == 0
Node == 1..MaxKey

RED == "RED"
BLACK == "BLACK"
NONE == "NONE"
LEFT == "LEFT"
RIGHT == "RIGHT"

VARIABLES
    color,   \* RBNode::_color of every node object
    parent,  \* RBNode::_parent
    left,    \* RBNode::_left
    right,   \* RBNode::_right
    size,    \* cached subtree size kept by the derived node's structure_fixup
    root,    \* the root pointer the caller stores from each returned value
    members, \* nodes inserted and not yet removed (caller's bookkeeping)
    last,    \* record of the last operation: what was called and what it saw
    bw,      \* a FixedBufferWriter: _buf, the bytes behind it, _capacity, _attempted
    bwlast,  \* record of the last FixedBufferWriter call and the writer before it
    run      \* the member function in progress: where it stands, its locals

vars == <<color, parent, left, right, size, root, members, last, bw, bwlast, run>>

\* The node fields as one value, threaded through the member functions.
\* ret  : value returned by the last member function applied
\* rot  : number of effective rotations performed in the current operation
\* hooks: nodes on which structure_fixup was invoked, in order
\* Node objects outside the tree belong to the caller, which disposes of a
\* removed node before its next call; a key inserted again is a newly
\* constructed node (RED, no links).
Tree == [color  |-> [n \in Node |-> IF n \in members THEN color[n] ELSE RED],
         parent |-> [n \in Node |-> IF n \in members THEN parent[n] ELSE Nil],
         left   |-> [n \in Node |-> IF n \in members THEN left[n] ELSE Nil],
         right  |-> [n \in Node |-> IF n \in members THEN right[n] ELSE Nil],
         size   |-> [n \in Node |-> IF n \in members THEN size[n] ELSE 1],
         ret |-> Nil, rot |-> 0, hooks |-> <<>>]

(***************************************************************************)
(* Linkage primitives.                                                     *)
(***************************************************************************)

\* operator==(RBNode*, Color): a null node is BLACK.
ColorOf(t, n) == IF n # Nil THEN t.color[n] ELSE BLACK

child_at(t, n, d) ==
    IF d = RIGHT THEN t.right[n] ELSE IF d = LEFT THEN t.left[n] ELSE Nil

\* Identity comparison against _left then _right.
direction_of(t, p, n) ==
    IF n = t.left[p] THEN LEFT ELSE IF n = t.right[p] THEN RIGHT ELSE NONE

flip(d) == IF d = LEFT THEN RIGHT ELSE IF d = RIGHT THEN LEFT ELSE NONE

\* Nulls the slot only (as set_child(nullptr, dir) does).
clear_child(t, n, dir) ==
    IF dir = LEFT THEN [t EXCEPT !.left[n] = Nil]
    ELSE IF dir = RIGHT THEN [t EXCEPT !.right[n] = Nil]
    ELSE t

set_child(t, n, child, dir) ==
    LET t1 == IF child # Nil THEN [t EXCEPT !.parent[child] = n] ELSE t
    IN  IF dir = RIGHT THEN [t1 EXCEPT !.right[n] = child]
        ELSE IF dir = LEFT THEN [t1 EXCEPT !.left[n] = child]
        ELSE t1

\* Cached size of a possibly absent child.
SizeOf(t, n) == IF n # Nil THEN t.size[n] ELSE 0

\* The derived node's hook: size = 1 + size(left) + size(right).
structure_fixup(t, n) ==
    [t EXCEPT !.size[n] = 1 + SizeOf(t, t.left[n]) + SizeOf(t, t.right[n]),
              !.hooks = Append(@, n)]

\* Sequencing: the value of e is computed once and handed to F, as a
\* statement's result is to the statements after it.
Bind(e, F(_)) == CHOOSE r \in {F(v) : v \in {e}} : TRUE

rotate_return_this(t, x, dir) ==
    LET p         == t.parent[x]
        child_dir == IF p # Nil THEN direction_of(t, p, x) ELSE NONE
        other_dir == flip(dir)
        child     == child_at(t, x, other_dir)
    IN  IF dir # NONE /\ child # Nil
        THEN Bind(clear_child(t, x, other_dir), LAMBDA t1 :
             Bind(set_child(t1, x, child_at(t1, child, dir), other_dir), LAMBDA t2 :
             Bind(clear_child(t2, child, dir), LAMBDA t3 :
             Bind(set_child(t3, child, x, dir), LAMBDA t4 :
             Bind(structure_fixup(t4, child), LAMBDA t5 :
             Bind(structure_fixup(t5, x), LAMBDA t6 :
             Bind(IF p # Nil THEN clear_child(t6, p, child_dir) ELSE t6, LAMBDA t7 :
             Bind(IF p # Nil THEN set_child(t7, p, child, child_dir)
                  ELSE [t7 EXCEPT !.parent[child] = Nil], LAMBDA t8 :
             [t8 EXCEPT !.ret = x, !.rot = @ + 1]))))))))
        ELSE [t EXCEPT !.ret = x]

rotate_fixup_always(t, x, dir) ==
    LET p         == t.parent[x]
        child_dir == IF p # Nil THEN direction_of(t, p, x) ELSE NONE
        other_dir == flip(dir)
        child     == child_at(t, x, other_dir)
    IN  IF dir # NONE /\ child # Nil
        THEN Bind(clear_child(t, x, other_dir), LAMBDA t1 :
             Bind(set_child(t1, x, child_at(t1, child, dir), other_dir), LAMBDA t2 :
             Bind(clear_child(t2, child, dir), LAMBDA t3 :
             Bind(set_child(t3, child, x, dir), LAMBDA t4 :
             Bind(structure_fixup(t4, child), LAMBDA t5 :
             Bind(structure_fixup(t5, x), LAMBDA t6 :
             Bind(IF p # Nil THEN clear_child(t6, p, child_dir) ELSE t6, LAMBDA t7 :
             Bind(IF p # Nil THEN set_child(t7, p, child, child_dir)
                  ELSE [t7 EXCEPT !.parent[child] = Nil], LAMBDA t8 :
             [t8 EXCEPT !.ret = child, !.rot = @ + 1]))))))))
        ELSE Bind(structure_fixup(t, x), LAMBDA t1 : [t1 EXCEPT !.ret = x])

rotate_dropinner(t, x, dir) ==
    LET p         == t.parent[x]
        child_dir == IF p # Nil THEN direction_of(t, p, x) ELSE NONE
        other_dir == flip(dir)
        child     == child_at(t, x, other_dir)
    IN  IF dir # NONE /\ child # Nil
        THEN Bind(clear_child(t, x, other_dir), LAMBDA t1 :
             Bind(clear_child(t1, child, dir), LAMBDA t3 :
             Bind(set_child(t3, child, x, dir), LAMBDA t4 :
             Bind(structure_fixup(t4, child), LAMBDA t5 :
             Bind(structure_fixup(t5, x), LAMBDA t6 :
             Bind(IF p # Nil THEN clear_child(t6, p, child_dir) ELSE t6, LAMBDA t7 :
             Bind(IF p # Nil THEN set_child(t7, p, child, child_dir)
                  ELSE [t7 EXCEPT !.parent[child] = Nil], LAMBDA t8 :
             [t8 EXCEPT !.ret = child, !.rot = @ + 1])))))))
        ELSE [t EXCEPT !.ret = x]

rotate(t, x, dir) ==
    LET p         == t.parent[x]
        child_dir == IF p # Nil THEN direction_of(t, p, x) ELSE NONE
        other_dir == flip(dir)
        child     == child_at(t, x, other_dir)
    IN  IF dir # NONE /\ child # Nil
        THEN Bind(clear_child(t, x, other_dir), LAMBDA t1 :
             Bind(set_child(t1, x, child_at(t1, child, dir), other_dir), LAMBDA t2 :
             Bind(clear_child(t2, child, dir), LAMBDA t3 :
             Bind(set_child(t3, child, x, dir), LAMBDA t4 :
             Bind(structure_fixup(t4, child), LAMBDA t5 :
             Bind(structure_fixup(t5, x), LAMBDA t6 :
             Bind(IF p # Nil THEN clear_child(t6, p, child_dir) ELSE t6, LAMBDA t7 :
             Bind(IF p # Nil THEN set_child(t7, p, child, child_dir)
                  ELSE [t7 EXCEPT !.parent[child] = Nil], LAMBDA t8 :
             [t8 EXCEPT !.ret = child, !.rot = @ + 1]))))))))
        ELSE [t EXCEPT !.ret = x]

RECURSIVE ripple_structure_fixup_nohook(_, _)
ripple_structure_fixup_nohook(t, p) ==
    IF t.parent[p] # Nil THEN ripple_structure_fixup_nohook(t, t.parent[p])
    ELSE [t EXCEPT !.ret = p]

\* Called on a non-null node p: hook on p and on every ancestor, returns
\* the last node seen, the root.
RECURSIVE ripple_structure_fixup(_, _)
ripple_structure_fixup(t, p) ==
    Bind(structure_fixup(t, p), LAMBDA t1 :
        IF t1.parent[p] # Nil THEN ripple_structure_fixup(t1, t1.parent[p])
        ELSE [t1 EXCEPT !.ret = p])

left_most_descendant_shallow(t, n) == n

RECURSIVE left_most_descendant(_, _)
left_most_descendant(t, n) ==
    IF t.left[n] # Nil THEN left_most_descendant(t, t.left[n]) ELSE n

\* replace_with, lines 108-116: n takes this's place under this's parent.
replace_parent_link(t, this, n) ==
    LET p == t.parent[this]
        d == direction_of(t, p, this)
    IN  IF p # Nil
        THEN Bind(set_child(t, p, Nil, d), LAMBDA ta :
                 IF p # n THEN set_child(ta, p, n, d) ELSE ta)
        ELSE [t EXCEPT !.parent[n] = Nil]

\* replace_with, lines 117-124: n takes over this's children.
replace_children(t, this, n) ==
    Bind([t EXCEPT !.left[n] = Nil, !.right[n] = Nil], LAMBDA t2 :
    Bind(IF t2.left[this] # Nil /\ t2.left[this] # n
         THEN set_child(t2, n, t2.left[this], LEFT) ELSE t2, LAMBDA t3 :
    Bind(IF t3.right[this] # Nil /\ t3.right[this] # n
         THEN set_child(t3, n, t3.right[this], RIGHT) ELSE t3, LAMBDA t4 :
    [t4 EXCEPT !.left[this] = Nil, !.right[this] = Nil])))

replace_with_keep_color(t, this, n) ==
    Bind(replace_parent_link(t, this, n), LAMBDA t1 : replace_children(t1, this, n))

replace_with_leftlink(t, this, n) ==
    Bind([t EXCEPT !.color[n] = t.color[this]], LAMBDA t0 :
    Bind(replace_parent_link(t0, this, n), LAMBDA t1 :
    Bind([t1 EXCEPT !.left[n] = Nil, !.right[n] = Nil], LAMBDA t2 :
    Bind(IF t2.left[this] # Nil /\ t2.left[this] # n
         THEN [t2 EXCEPT !.left[n] = t2.left[this]] ELSE t2, LAMBDA t3 :
    Bind(IF t3.right[this] # Nil /\ t3.right[this] # n
         THEN set_child(t3, n, t3.right[this], RIGHT) ELSE t3, LAMBDA t4 :
    [t4 EXCEPT !.left[this] = Nil, !.right[this] = Nil])))))

replace_with_drop_right(t, this, n) ==
    Bind([t EXCEPT !.color[n] = t.color[this]], LAMBDA t0 :
    Bind(replace_parent_link(t0, this, n), LAMBDA t1 :
    Bind([t1 EXCEPT !.left[n] = Nil, !.right[n] = Nil], LAMBDA t2 :
    Bind(IF t2.left[this] # Nil /\ t2.left[this] # n
         THEN set_child(t2, n, t2.left[this], LEFT) ELSE t2, LAMBDA t3 :
    [t3 EXCEPT !.left[this] = Nil, !.right[this] = Nil]))))

replace_with(t, this, n) ==
    Bind([t EXCEPT !.color[n] = t.color[this]], LAMBDA t0 :
    Bind(replace_parent_link(t0, this, n), LAMBDA t1 :
    replace_children(t1, this, n)))

(***************************************************************************)
(* rebalance_after_insert                                                  *)
(***************************************************************************)

insert_red_uncle_stay(t, x, y) ==
    LET p == t.parent[x]
        g == t.parent[p]
    IN  [t |-> [t EXCEPT !.color[p] = BLACK, !.color[y] = BLACK, !.color[g] = RED],
         x |-> x]

insert_red_uncle_skipuncle(t, x, y) ==
    LET p == t.parent[x]
        g == t.parent[p]
    IN  [t |-> [t EXCEPT !.color[p] = BLACK, !.color[g] = RED],
         x |-> g]

\* Uncle y is RED: recolor and push the imbalance to the grandparent.
insert_red_uncle(t, x, y) ==
    LET p == t.parent[x]
        g == t.parent[p]
    IN  [t |-> [t EXCEPT !.color[p] = BLACK, !.color[y] = BLACK, !.color[g] = RED],
         x |-> g]

\* Uncle is BLACK: straighten an inner child, then recolor and rotate the
\* grandparent.
insert_black_uncle(t, x, child_dir, other_dir) ==
    LET inner == child_at(t, t.parent[x], other_dir) = x
        x1    == IF inner THEN t.parent[x] ELSE x
    IN  Bind(IF inner THEN rotate(t, x1, child_dir) ELSE t, LAMBDA t1 :
        Bind([t1 EXCEPT !.color[t1.parent[x1]] = BLACK], LAMBDA t2 :
        Bind([t2 EXCEPT !.color[t2.parent[t2.parent[x1]]] = RED], LAMBDA t3 :
        [t |-> rotate(t3, t3.parent[t3.parent[x1]], other_dir), x |-> x1])))

RECURSIVE insert_loop(_, _)
insert_loop(t, x) ==
    IF x # Nil /\ ColorOf(t, t.parent[x]) = RED
    THEN IF t.parent[t.parent[x]] # Nil
         THEN LET g         == t.parent[t.parent[x]]
                  child_dir == direction_of(t, g, t.parent[x])
                  other_dir == flip(child_dir)
                  y         == child_at(t, g, other_dir)
              IN  Bind(IF ColorOf(t, y) = RED
                       THEN insert_red_uncle(t, x, y)
                       ELSE insert_black_uncle(t, x, child_dir, other_dir),
                       LAMBDA s : insert_loop(s.t, s.x))
         ELSE t
    ELSE t

rebalance_after_insert_rootasis(t, this) ==
    Bind(insert_loop(t, this), LAMBDA t1 : ripple_structure_fixup(t1, this))

rebalance_after_insert(t, this) ==
    Bind(insert_loop(t, this), LAMBDA t1 :
    Bind(ripple_structure_fixup(t1, this), LAMBDA t2 :
    [t2 EXCEPT !.color[t2.ret] = BLACK]))

(***************************************************************************)
(* rebalance_after_remove                                                  *)
(***************************************************************************)

\* Sibling w is RED: make it BLACK, parent RED, rotate parent toward near.
remove_red_sibling(t, p, w, near) ==
    Bind([t EXCEPT !.color[w] = BLACK, !.color[p] = RED], LAMBDA t2 :
    rotate(t2, p, near))

\* Terminal recoloring: w takes parent's color, parent and far nephew BLACK,
\* parent rotated toward near.
remove_terminal_recolor(t, p, near, far) ==
    LET w   == child_at(t, p, far)
        wfc == child_at(t, w, far)
    IN  Bind([t EXCEPT !.color[w] = t.color[p]], LAMBDA t4 :
        Bind([t4 EXCEPT !.color[p] = BLACK], LAMBDA t5 :
        Bind([t5 EXCEPT !.color[wfc] = BLACK], LAMBDA t6 :
        rotate(t6, p, near))))

\* A nephew is RED: if the far one is BLACK, recolor and rotate the sibling
\* first; then the terminal recoloring.
remove_terminal(t, p, w, near, far) ==
    IF ColorOf(t, child_at(t, w, far)) = BLACK
    THEN Bind([t EXCEPT !.color[child_at(t, w, near)] = BLACK], LAMBDA t1 :
         Bind([t1 EXCEPT !.color[w] = RED], LAMBDA t2 :
         Bind(rotate(t2, w, far), LAMBDA t3 :
         remove_terminal_recolor(t3, p, near, far))))
    ELSE remove_terminal_recolor(t, p, near, far)

RECURSIVE remove_loop(_, _, _, _)

\* Loop body from the sibling's children on; t1 is the tree after the
\* sibling RED case.
remove_nephews(t1, p, near, far) ==
    LET w   == child_at(t1, p, far)
        wfc == child_at(t1, w, far)
    IN  IF ColorOf(t1, child_at(t1, w, near)) = BLACK /\ ColorOf(t1, wfc) = BLACK
        THEN Bind([t1 EXCEPT !.color[w] = RED], LAMBDA t2 :
             remove_loop(t2, p, t2.parent[p], NONE))
        ELSE remove_terminal(t1, p, w, near, far)

remove_loop(t, n, p, d) ==
    IF p # Nil
    THEN IF n # Nil /\ ColorOf(t, n) = RED
         THEN [t EXCEPT !.color[n] = BLACK]
         ELSE LET right_side == (NONE = d /\ direction_of(t, p, n) = RIGHT) \/ RIGHT = d
                  near == IF right_side THEN RIGHT ELSE LEFT
                  far  == IF right_side THEN LEFT ELSE RIGHT
                  w    == child_at(t, p, far)
              IN  Bind(IF t.color[w] = RED THEN remove_red_sibling(t, p, w, near) ELSE t,
                       LAMBDA t1 : remove_nephews(t1, p, near, far))
    ELSE t

rebalance_after_remove_never(t, this, c, d) == ripple_structure_fixup(t, this)

rebalance_after_remove_paint(t, this, c, d) ==
    Bind(IF BLACK = c
         THEN IF NONE # d
              THEN remove_loop(t, Nil, this, d)
              ELSE remove_loop(t, this, t.parent[this], d)
         ELSE [t EXCEPT !.color[this] = BLACK],
         LAMBDA t1 : ripple_structure_fixup(t1, this))

rebalance_after_remove(t, this, c, d) ==
    Bind(IF BLACK = c
         THEN IF NONE # d
              THEN remove_loop(t, Nil, this, d)
              ELSE remove_loop(t, this, t.parent[this], d)
         ELSE t,
         LAMBDA t1 : ripple_structure_fixup(t1, this))

(***************************************************************************)
(* remove                                                                  *)
(***************************************************************************)

remove_root_case_nocolor(t, this) ==
    IF t.left[this] # Nil
    THEN [t EXCEPT !.parent[t.left[this]] = Nil, !.ret = t.left[this]]
    ELSE IF t.right[this] # Nil
    THEN [t EXCEPT !.parent[t.right[this]] = Nil, !.ret = t.right[this]]
    ELSE [t EXCEPT !.ret = Nil]

\* this is the root and has at most one child: that child (made BLACK) or
\* NULL is the new root.
remove_root_case(t, this) ==
    IF t.left[this] # Nil
    THEN [t EXCEPT !.parent[t.left[this]] = Nil, !.color[t.left[this]] = BLACK,
                   !.ret = t.left[this]]
    ELSE IF t.right[this] # Nil
    THEN [t EXCEPT !.parent[t.right[this]] = Nil, !.color[t.right[this]] = BLACK,
                   !.ret = t.right[this]]
    ELSE [t EXCEPT !.ret = Nil]

remove_splice_blackened(t, this) ==
    LET remove_node == IF t.left[this] # Nil /\ t.right[this] # Nil
                       THEN left_most_descendant(t, t.right[this]) ELSE this
    IN  Bind(remove_node, LAMBDA rn :
        LET child == IF t.left[rn] # Nil THEN t.left[rn] ELSE t.right[rn]
            splice0 == IF child # Nil THEN child ELSE t.parent[rn]
            d  == IF child # Nil THEN NONE ELSE direction_of(t, splice0, rn)
            splice_node == IF rn # this /\ splice0 = this THEN rn ELSE splice0
        IN  Bind(IF child # Nil THEN replace_with(t, rn, child)
                 ELSE set_child(t, splice0, Nil, d), LAMBDA t1 :
            Bind(IF rn # this THEN replace_with(t1, this, rn) ELSE t1, LAMBDA t2 :
            [t |-> t2, splice_node |-> splice_node, remove_color |-> BLACK,
             d |-> d, remove_node |-> rn])))

\* Physical removal of remove_node and, for a two child target, the swap of
\* remove_node into the target's position.  Yields the tree handed to
\* rebalance_after_remove together with its arguments.
remove_splice(t, this) ==
    LET remove_node == IF t.left[this] # Nil /\ t.right[this] # Nil
                       THEN left_most_descendant(t, t.right[this]) ELSE this
    IN  Bind(remove_node, LAMBDA rn :
        LET child == IF t.left[rn] # Nil THEN t.left[rn] ELSE t.right[rn]
            remove_color == IF child # Nil THEN t.color[child] ELSE t.color[rn]
            splice0 == IF child # Nil THEN child ELSE t.parent[rn]
            d  == IF child # Nil THEN NONE ELSE direction_of(t, splice0, rn)
            splice_node == IF rn # this /\ splice0 = this THEN rn ELSE splice0
        IN  Bind(IF child # Nil THEN replace_with(t, rn, child)
                 ELSE set_child(t, splice0, Nil, d), LAMBDA t1 :
            Bind(IF rn # this THEN replace_with(t1, this, rn) ELSE t1, LAMBDA t2 :
            [t |-> t2, splice_node |-> splice_node, remove_color |-> remove_color,
             d |-> d, remove_node |-> rn])))

remove_general(t, this) ==
    Bind(remove_splice(t, this), LAMBDA s :
    Bind(rebalance_after_remove(s.t, s.splice_node, s.remove_color, s.d), LAMBDA t1 :
    [t1 EXCEPT !.color[t1.ret] = BLACK]))

IsRootCase(t, this) ==
    t.parent[this] = Nil /\ ~(t.left[this] # Nil /\ t.right[this] # Nil)

remove(t, this) ==
    IF IsRootCase(t, this) THEN remove_root_case(t, this) ELSE remove_general(t, this)

(***************************************************************************)
(* Caller level insert: BST descent, link as RED leaf, rebalance.          *)
(***************************************************************************)

\* Three way comparison of keys; nodes are their keys.
RECURSIVE descend(_, _, _)
descend(t, at, n) ==
    LET dir == IF n < at THEN LEFT ELSE RIGHT
    IN  IF child_at(t, at, dir) = Nil THEN [spot |-> at, dir |-> dir]
        ELSE descend(t, child_at(t, at, dir), n)

\* The tree with n linked as a RED leaf.
link_leaf(t, rt, n) ==
    Bind([t EXCEPT !.color[n] = RED, !.parent[n] = Nil,
                   !.left[n] = Nil, !.right[n] = Nil], LAMBDA t0 :
        IF rt = Nil THEN t0
        ELSE Bind(descend(t0, rt, n), LAMBDA s : set_child(t0, s.spot, n, s.dir)))

insert(t, rt, n) ==
    Bind(link_leaf(t, rt, n), LAMBDA t1 : rebalance_after_insert(t1, n))

(***************************************************************************)
(* FixedBufferWriter (include/swoc/BufferWriter.h).                        *)
(*                                                                         *)
(* A writer is a record: buf is the address held by _buf, mem the bytes    *)
(* from that address on (cells at BufSize and above lie behind the buffer  *)
(* the writer was given), capacity and attempted are _capacity and         *)
(* _attempted.  Addresses are integers, NullPtr is nullptr.                *)
(***************************************************************************)

\* Length of the character array handed to the writer.
BufSize == 3
\* Longest data block of one write, and largest n of fill/shrink/restore/drop.
MaxLen == 2
\* Cap on _attempted: write and fill are not taken beyond it.
MaxExtent == 5

NullPtr == 0
BufAddr == 1
Char == {"a", "b"}
Unwritten == "?"
Cells == 0..(MaxExtent - 1)

Min(a, b) == IF a < b THEN a ELSE b

\* FixedBufferWriter(span): _buf = span.begin(), _capacity = span.size(),
\* _attempted = 0.
FixedBufferWriter(buffer, cap) ==
    [buf |-> buffer, mem |-> [i \in Cells |-> Unwritten],
     capacity |-> cap, attempted |-> 0]

capacity(w) == w.capacity

extent(w) == w.attempted

bw_size(w) == Min(extent(w), capacity(w))

remaining(w) == capacity(w) - bw_size(w)

error(w) == w.attempted > w.capacity

aux_buffer(w) == IF error(w) THEN NullPtr ELSE w.buf + w.attempted

\* std::memcpy(_buf + at, data, len): the first len characters of data.
memcpy(mem, at, data, len) ==
    [i \in DOMAIN mem |->
        IF at <= i /\ i < at + len THEN data[(i - at) + 1] ELSE mem[i]]

write_char(w, c) ==
    [w EXCEPT !.mem = IF w.attempted < w.capacity
                      THEN memcpy(@, w.attempted, <<c>>, 1) ELSE @,
              !.attempted = @ + 1]

write_noclip(w, data) ==
    LET length  == Len(data)
        newSize == w.attempted + length
    IN  [w EXCEPT !.mem = IF w.buf # NullPtr /\ w.attempted < w.capacity
                          THEN memcpy(@, w.attempted, data, length)
                          ELSE @,
                  !.attempted = newSize]

write(w, data) ==
    LET length  == Len(data)
        newSize == w.attempted + length
    IN  [w EXCEPT !.mem = IF w.buf # NullPtr
                          THEN IF newSize <= w.capacity
                               THEN memcpy(@, w.attempted, data, length)
                               ELSE IF w.attempted < w.capacity
                                    THEN memcpy(@, w.attempted, data,
                                                w.capacity - w.attempted)
                                    ELSE @
                          ELSE @,
                  !.attempted = newSize]

fill(w, n) == [w EXCEPT !.attempted = @ + n]

shrink_to_size(w, n) ==
    [w EXCEPT !.capacity = IF @ - n < bw_size(w) THEN bw_size(w) ELSE @ - n]

shrink(w, n) == [w EXCEPT !.capacity = @ - n]

restore_keep_extent(w, n) == [w EXCEPT !.capacity = @ + n]

restore(w, n) ==
    [w EXCEPT !.attempted = IF error(w) THEN w.capacity ELSE @,
              !.capacity = @ + n]

drop(w, n) == [w EXCEPT !.attempted = @ - Min(@, n)]

clear(w) == [w EXCEPT !.attempted = 0]

(***************************************************************************)
(* State machine                                                           *)
(***************************************************************************)

Fields(t) == [color |-> t.color, parent |-> t.parent, left |-> t.left,
              right |-> t.right, size |-> t.size]

Fresh == [color |-> [n \in Node |-> RED], parent |-> [n \in Node |-> Nil],
          left |-> [n \in Node |-> Nil], right |-> [n \in Node |-> Nil],
          size |-> [n \in Node |-> 1]]

\* No member function in progress.
IdleRun == [pc |-> "idle", this |-> Nil, x |-> Nil, p |-> Nil, d |-> NONE,
            brk |-> FALSE, iter |-> "none", d0 |-> 0, d1 |-> 0, red |-> FALSE,
            rot |-> 0, branch |-> "none"]

\* No FixedBufferWriter call made yet on the writer w.
NoCall(w) == [op |-> "none", n |-> 0, data |-> <<>>, pre |-> w, ret |-> NullPtr]

TreeInit ==
    /\ color = Fresh.color
    /\ parent = Fresh.parent
    /\ left = Fresh.left
    /\ right = Fresh.right
    /\ size = Fresh.size
    /\ root = Nil
    /\ members = {}
    /\ last = [op |-> "none", node |-> Nil, pre |-> Fresh, preroot |-> Nil,
               mid |-> Fresh, rot |-> 0, hooks |-> <<>>, dir |-> NONE, ret |-> Nil]

Init ==
    /\ TreeInit
    /\ bw = FixedBufferWriter(NullPtr, 0)
    /\ bwlast = NoCall(bw)
    /\ run = IdleRun

Store(t) ==
    /\ color' = t.color
    /\ parent' = t.parent
    /\ left' = t.left
    /\ right' = t.right
    /\ size' = t.size
    /\ root' = t.ret

Insert(n) ==
    /\ n \notin members
    /\ \E t0 \in {Tree} : \E m \in {link_leaf(t0, root, n)} :
       \E t \in {rebalance_after_insert(m, n)} :
           /\ Store(t)
           /\ last' = [op |-> "insert", node |-> n, pre |-> Fields(t0),
                       preroot |-> root, mid |-> Fields(m),
                       rot |-> t.rot, hooks |-> t.hooks,
                       dir |-> NONE, ret |-> t.ret]
    /\ members' = members \cup {n}
    /\ UNCHANGED <<bw, bwlast, run>>

Remove(n) ==
    /\ n \in members
    /\ \E t0 \in {Tree} : \E t \in {remove(t0, n)} :
       \E m \in {IF IsRootCase(t0, n) THEN t0 ELSE remove_splice(t0, n).t} :
           /\ Store(t)
           /\ last' = [op |-> "remove", node |-> n, pre |-> Fields(t0),
                       preroot |-> root, mid |-> Fields(m),
                       rot |-> t.rot, hooks |-> t.hooks,
                       dir |-> NONE, ret |-> t.ret]
    /\ members' = members \ {n}
    /\ UNCHANGED <<bw, bwlast, run>>

Next == \E n \in Node : Insert(n) \/ Remove(n)

Spec == Init /\ [][Next]_vars

(***************************************************************************)
(* rotate as an operation of its own: one rotation of a node of a tree     *)
(* built by insert and remove, then the opposite rotation of the node the  *)
(* first one returned.                                                     *)
(***************************************************************************)

Settled == last.op \in {"none", "insert", "remove"}

\* x.rotate(dir) on a node of the tree; the caller's root follows the
\* returned local root when x was the root.
Rotate(x, dir) ==
    /\ Settled
    /\ x \in members
    /\ \E t0 \in {Tree} : \E t \in {rotate(t0, x, dir)} :
           /\ color' = t.color
           /\ parent' = t.parent
           /\ left' = t.left
           /\ right' = t.right
           /\ size' = t.size
           /\ root' = IF x = root THEN t.ret ELSE root
           /\ last' = [op |-> "rotate", node |-> x, pre |-> Fields(t0),
                       preroot |-> root, mid |-> Fields(t0),
                       rot |-> t.rot, hooks |-> t.hooks,
                       dir |-> dir, ret |-> t.ret]
    /\ UNCHANGED <<members, bw, bwlast, run>>

\* r.rotate(flip(dir)) on the node r returned by the rotation before.
RotateBack ==
    /\ last.op = "rotate"
    /\ \E t0 \in {Tree} : \E t \in {rotate(t0, last.ret, flip(last.dir))} :
           /\ color' = t.color
           /\ parent' = t.parent
           /\ left' = t.left
           /\ right' = t.right
           /\ size' = t.size
           /\ root' = IF last.ret = root THEN t.ret ELSE root
           /\ last' = [op |-> "rotate_back", node |-> last.node, pre |-> last.pre,
                       preroot |-> last.preroot, mid |-> Fields(t0),
                       rot |-> t.rot, hooks |-> t.hooks,
                       dir |-> last.dir, ret |-> t.ret]
    /\ UNCHANGED <<members, bw, bwlast, run>>

NextRotate ==
    \/ Settled /\ Next
    \/ \E x \in Node : \E dir \in {LEFT, RIGHT, NONE} : Rotate(x, dir)
    \/ RotateBack

SpecRotate == Init /\ [][NextRotate]_vars

(***************************************************************************)
(* FixedBufferWriter as a state machine: one writer, on a character array  *)
(* of BufSize bytes or on no buffer at all, and the calls made on it.      *)
(***************************************************************************)

treevars == <<color, parent, left, right, size, root, members, last, run>>

Data == UNION {[1..k -> Char] : k \in 0..MaxLen}

\* Capacity the writer was constructed with; restore may not go beyond it.
Given == IF bw.buf = NullPtr THEN 0 ELSE BufSize

InitBW ==
    /\ TreeInit
    /\ bw \in {FixedBufferWriter(NullPtr, 0), FixedBufferWriter(BufAddr, BufSize)}
    /\ bwlast = NoCall(bw)
    /\ run = IdleRun

Called(op, n, data, w, ret) ==
    /\ bw' = w
    /\ bwlast' = [op |-> op, n |-> n, data |-> data, pre |-> bw, ret |-> ret]
    /\ UNCHANGED treevars

WriteChar(c) ==
    /\ bw.attempted + 1 <= MaxExtent
    /\ Called("write_char", 1, <<c>>, write_char(bw, c), NullPtr)

Write(data) ==
    /\ bw.attempted + Len(data) <= MaxExtent
    /\ Called("write", Len(data), data, write(bw, data), NullPtr)

AuxBuffer ==
    /\ bwlast' = [op |-> "aux_buffer", n |-> 0, data |-> <<>>, pre |-> bw,
                  ret |-> aux_buffer(bw)]
    /\ UNCHANGED <<bw, treevars>>

Fill(n) ==
    /\ bw.attempted + n <= MaxExtent
    /\ Called("fill", n, <<>>, fill(bw, n), NullPtr)

Shrink(n) ==
    /\ n <= bw.capacity
    /\ Called("shrink", n, <<>>, shrink(bw, n), NullPtr)

Restore(n) ==
    /\ bw.capacity + n <= Given
    /\ Called("restore", n, <<>>, restore(bw, n), NullPtr)

Drop(n) ==
    /\ n <= bw.attempted
    /\ Called("drop", n, <<>>, drop(bw, n), NullPtr)

Clear ==
    /\ bw' = clear(bw)
    /\ bwlast' = [op |-> "clear", n |-> 0, data |-> <<>>, pre |-> bw,
                  ret |-> NullPtr]
    /\ UNCHANGED treevars

NextBW ==
    \/ \E c \in Char : WriteChar(c)
    \/ \E data \in Data : Write(data)
    \/ AuxBuffer
    \/ \E n \in 0..MaxLen : Fill(n)
    \/ \E n \in 0..MaxLen : Shrink(n)
    \/ \E n \in 0..MaxLen : Restore(n)
    \/ \E n \in 0..MaxLen : Drop(n)
    \/ Clear

SpecBW == InitBW /\ [][NextBW]_vars

(***************************************************************************)
(* Observation of the current state                                        *)
(***************************************************************************)

\* The node fields as they are now, removed node included.
Cur == [color |-> color, parent |-> parent, left |-> left, right |-> right,
        size |-> size, ret |-> Nil, rot |-> 0, hooks |-> <<>>]

RECURSIVE Grow(_, _)
Grow(t, S) ==
    LET S2 == S \cup (({t.left[n] : n \in S} \cup {t.right[n] : n \in S}) \ {Nil})
    IN  IF S2 = S THEN S ELSE Grow(t, S2)

\* Nodes reachable from r through _left/_right.
Reach(t, r) == IF r = Nil THEN {} ELSE Grow(t, {r})

\* Numbers of BLACK nodes crossed on the downward paths from n to an absent
\* child, the absent child counted; -1 marks a path longer than any tree.
RECURSIVE BlackCounts(_, _, _)
BlackCounts(t, n, fuel) ==
    IF n = Nil THEN {1}
    ELSE IF fuel = 0 THEN {-1}
    ELSE LET below == BlackCounts(t, t.left[n], fuel - 1)
                      \cup BlackCounts(t, t.right[n], fuel - 1)
             inc   == IF t.color[n] = BLACK THEN 1 ELSE 0
         IN  {IF b = -1 THEN -1 ELSE b + inc : b \in below}

HasTwo(t, n) == t.left[n] # Nil /\ t.right[n] # Nil

\* Smallest key of a non-empty set of nodes.
MinKey(S) == CHOOSE m \in S : \A k \in S : m <= k

(***************************************************************************)
(* Properties                                                              *)
(***************************************************************************)

\* C1: after every insert and remove, all paths from the root down to an
\* absent child cross the same number of BLACK nodes.
C1_BlackHeightUniform ==
    LET counts == BlackCounts(Cur, root, MaxKey + 1)
    IN  Cardinality(counts) = 1 /\ -1 \notin counts

\* A remove that had to rotate left a tree of black height 3 or more.
C1_Witness ==
    /\ last.op = "remove"
    /\ last.rot >= 1
    /\ BlackCounts(Cur, root, MaxKey + 1) = {3}

\* C2: no RED node reachable from the root has a RED parent.
C2_NoRedRed ==
    \A n \in Reach(Cur, root) :
        color[n] = RED =>
            /\ ColorOf(Cur, parent[n]) # RED
            /\ ColorOf(Cur, left[n]) # RED
            /\ ColorOf(Cur, right[n]) # RED

\* An insert under a RED parent that needed the double rotation.
C2_Witness ==
    /\ last.op = "insert"
    /\ last.rot = 2
    /\ last.mid.color[last.mid.parent[last.node]] = RED
    /\ \E n \in Reach(Cur, root) : color[n] = RED

\* C3: the root returned by insert and by remove is BLACK when there is one.
C3_RootBlack == root # Nil => color[root] = BLACK

\* A remove whose returned root was RED before the call.
C3_Witness ==
    /\ last.op = "remove"
    /\ root # Nil
    /\ last.pre.color[root] = RED
    /\ color[root] = BLACK

\* C4: for every node of the tree the keys of its left subtree are smaller
\* and the keys of its right subtree are larger than its key.
C4_BSTOrder ==
    \A n \in Reach(Cur, root) :
        /\ \A m \in Reach(Cur, left[n]) : m < n
        /\ \A m \in Reach(Cur, right[n]) : m > n

\* A remove of a two child node whose successor is not its right child.
C4_Witness ==
    /\ last.op = "remove"
    /\ HasTwo(last.pre, last.node)
    /\ last.pre.left[last.pre.right[last.node]] # Nil
    /\ Cardinality(Reach(Cur, root)) >= 4

Consistent(t, r) ==
    LET S == Reach(t, r)
    IN  /\ \A p \in S : \A c \in S :
               (t.parent[c] = p) <=> (t.left[p] = c \/ t.right[p] = c)
        /\ r # Nil => t.parent[r] = Nil
        /\ \A n \in S : t.parent[n] # n /\ t.left[n] # n /\ t.right[n] # n

\* C5: after insert and remove, and after any rotate applied to the result,
\* c.parent = p exactly when c is p's left or right child, the root has no
\* parent and no node is its own parent or child.
C5_ParentChildConsistent ==
    /\ Consistent(Cur, root)
    /\ \A x \in Reach(Cur, root) : \A dir \in {LEFT, RIGHT, NONE} :
           LET t == rotate(Cur, x, dir)
           IN  Consistent(t, IF x = root THEN t.ret ELSE root)

\* A remove that went through replace_with twice and rotated.
C5_Witness ==
    /\ last.op = "remove"
    /\ HasTwo(last.pre, last.node)
    /\ last.rot >= 1
    /\ \E x \in Reach(Cur, root) : rotate(Cur, x, LEFT).rot = 1

\* C6: the nodes reachable from the returned root are the inserted nodes
\* minus the removed ones, the root is absent exactly when there are none,
\* and the removed node is not reachable.
C6_Membership ==
    /\ Reach(Cur, root) = members
    /\ (root = Nil) <=> (members = {})
    /\ last.op = "remove" => last.node \notin Reach(Cur, root)
    /\ last.op = "remove" =>
           Cardinality(Reach(Cur, root)) = Cardinality(Reach(last.pre, last.preroot)) - 1
    /\ last.op = "insert" =>
           Cardinality(Reach(Cur, root)) = Cardinality(Reach(last.pre, last.preroot)) + 1

\* A remove of a two child node from a tree of at least five nodes.
C6_Witness ==
    /\ last.op = "remove"
    /\ HasTwo(last.pre, last.node)
    /\ Cardinality(members) >= 4
    /\ Reach(Cur, root) = members

\* C7: every node of the tree caches the number of nodes of its subtree.
C7_SizeConsistent ==
    \A n \in Reach(Cur, root) : size[n] = Cardinality(Reach(Cur, n))

\* A remove that rotated twice, so hooks ran inside rotate and in the ripple.
C7_Witness ==
    /\ last.op = "remove"
    /\ last.rot >= 2
    /\ Len(last.hooks) >= 5
    /\ size[root] = Cardinality(members)

\* C8: after remove(t) the node t has no parent, left or right reference and
\* no node of the tree refers to t.
C8_RemovedDetached ==
    last.op = "remove" =>
        /\ parent[last.node] = Nil
        /\ left[last.node] = Nil
        /\ right[last.node] = Nil
        /\ \A n \in Reach(Cur, root) :
               parent[n] # last.node /\ left[n] # last.node /\ right[n] # last.node

\* C9: removing a root with exactly one child returns that child, BLACK and
\* without parent; removing the only node returns no root.
C9_RemoveRootCase ==
    (last.op = "remove" /\ last.pre.parent[last.node] = Nil
                        /\ ~HasTwo(last.pre, last.node)) =>
        LET l == last.pre.left[last.node]
            r == last.pre.right[last.node]
            c == IF l # Nil THEN l ELSE r
        IN  IF c = Nil THEN root = Nil
            ELSE root = c /\ color[c] = BLACK /\ parent[c] = Nil

\* The root with one RED child was removed and the child is the root.
C9_Witness ==
    /\ last.op = "remove"
    /\ last.pre.parent[last.node] = Nil
    /\ ~HasTwo(last.pre, last.node)
    /\ root # Nil
    /\ last.pre.color[root] = RED
    /\ last.pre.parent[root] = last.node

\* C10: when a node with two children is removed, right before rebalancing
\* its in-order successor stands where the node stood: same parent and side,
\* the node's left child, the rest of the node's right subtree, and the
\* node's color.
C10_SuccessorTakesPosition ==
    (last.op = "remove" /\ HasTwo(last.pre, last.node)) =>
        LET t   == last.node
            pre == last.pre
            m   == last.mid
            s   == MinKey(Reach(pre, pre.right[t]))
            p   == pre.parent[t]
        IN  /\ m.parent[s] = p
            /\ p # Nil => direction_of(m, p, s) = direction_of(pre, p, t)
            /\ m.left[s] = pre.left[t]
            /\ m.parent[pre.left[t]] = s
            /\ m.right[s] = (IF pre.right[t] = s THEN pre.right[s] ELSE pre.right[t])
            /\ m.right[s] # Nil => m.parent[m.right[s]] = s
            /\ Reach(m, m.right[s]) = Reach(pre, pre.right[t]) \ {s}
            /\ m.color[s] = pre.color[t]

\* A two child node was removed whose successor had the other color.
C10_Witness ==
    /\ last.op = "remove"
    /\ HasTwo(last.pre, last.node)
    /\ LET s == MinKey(Reach(last.pre, last.pre.right[last.node]))
       IN  /\ last.pre.color[s] # last.pre.color[last.node]
           /\ last.mid.color[s] = last.pre.color[last.node]
           /\ last.pre.parent[last.node] # Nil

(***************************************************************************)
(* Properties of rotate (SpecRotate)                                       *)
(***************************************************************************)

\* Keys of the subtree of n in left-root-right order; fuel bounds the depth.
RECURSIVE InOrder(_, _, _)
InOrder(t, n, fuel) ==
    IF n = Nil \/ fuel = 0 THEN <<>>
    ELSE InOrder(t, t.left[n], fuel - 1) \o <<n>> \o InOrder(t, t.right[n], fuel - 1)

\* The rotation recorded in last had a child to lift: dir is LEFT or RIGHT
\* and the node had a child on the opposite side.
Effective ==
    /\ last.dir \in {LEFT, RIGHT}
    /\ child_at(last.pre, last.node, flip(last.dir)) # Nil

\* The child lifted by the recorded rotation.
Lifted == child_at(last.pre, last.node, flip(last.dir))

\* C11: for a node x with a child opposite to dir, r = x.rotate(dir) then
\* r.rotate(flip(dir)) restores every parent, left and right link, returns
\* x, and the in-order sequence is the same before, between and after.
C11_RotateRoundTrip ==
    /\ (last.op = "rotate" /\ Effective) =>
           InOrder(Cur, root, MaxKey + 1)
               = InOrder(last.pre, last.preroot, MaxKey + 1)
    /\ (last.op = "rotate_back" /\ Effective) =>
           /\ parent = last.pre.parent
           /\ left = last.pre.left
           /\ right = last.pre.right
           /\ last.ret = last.node
           /\ root = last.preroot
           /\ InOrder(Cur, root, MaxKey + 1)
                  = InOrder(last.pre, last.preroot, MaxKey + 1)
           /\ InOrder(last.mid, IF last.node = last.preroot THEN Lifted
                                ELSE last.preroot, MaxKey + 1)
                  = InOrder(last.pre, last.preroot, MaxKey + 1)

\* A round trip on a node that has a parent and whose lifted child had an
\* inner subtree, back in its first shape.
C11_Witness ==
    /\ last.op = "rotate_back"
    /\ Effective
    /\ last.pre.parent[last.node] # Nil
    /\ child_at(last.pre, Lifted, last.dir) # Nil
    /\ last.mid.parent[last.node] = Lifted
    /\ parent[Lifted] = last.node
    /\ last.rot = 1

\* C12: x.rotate(dir) with dir NONE or without a child opposite to dir
\* returns x, changes no color and no link, and invokes no hook.
C12_RotateMisuseNoop ==
    (last.op = "rotate" /\ ~Effective) =>
        /\ last.ret = last.node
        /\ color = last.pre.color
        /\ parent = last.pre.parent
        /\ left = last.pre.left
        /\ right = last.pre.right
        /\ size = last.pre.size
        /\ root = last.preroot
        /\ last.hooks = <<>>
        /\ last.rot = 0

\* A rotation toward the side where the node has its only child.
C12_Witness ==
    /\ last.op = "rotate"
    /\ last.dir \in {LEFT, RIGHT}
    /\ child_at(last.pre, last.node, flip(last.dir)) = Nil
    /\ child_at(last.pre, last.node, last.dir) # Nil
    /\ last.ret = last.node

\* C19: after an effective x.rotate(dir) the opposite child c is returned,
\* x is c's dir child, c's former dir subtree is x's opposite child, the
\* other two children stay, x's former parent refers to c on the same side
\* (or c has no parent), and no color changed.
C19_RotateEffect ==
    (last.op = "rotate" /\ Effective) =>
        LET x   == last.node
            dir == last.dir
            oth == flip(last.dir)
            pre == last.pre
            c   == Lifted
            p   == last.pre.parent[last.node]
            gc  == child_at(last.pre, Lifted, last.dir)
        IN  /\ last.ret = c
            /\ child_at(Cur, c, dir) = x
            /\ parent[x] = c
            /\ child_at(Cur, x, oth) = gc
            /\ gc # Nil => parent[gc] = x
            /\ child_at(Cur, x, dir) = child_at(pre, x, dir)
            /\ child_at(Cur, c, oth) = child_at(pre, c, oth)
            /\ parent[c] = p
            /\ p # Nil => direction_of(Cur, p, c) = direction_of(pre, p, x)
            /\ root = (IF x = last.preroot THEN c ELSE last.preroot)
            /\ color = pre.color
            /\ \A n \in Node \ {x, c, gc, p} :
                   /\ parent[n] = pre.parent[n]
                   /\ left[n] = pre.left[n]
                   /\ right[n] = pre.right[n]

\* An effective rotation below a parent that moved an inner subtree.
C19_Witness ==
    /\ last.op = "rotate"
    /\ Effective
    /\ last.pre.parent[last.node] # Nil
    /\ child_at(last.pre, Lifted, last.dir) # Nil
    /\ last.ret = Lifted
    /\ parent[last.node] = Lifted

\* C20: an effective x.rotate(dir) invokes structure_fixup once on x, the
\* node that ends up lower, and then once on the new local root.
C20_HookOrderBottomUp ==
    (last.op = "rotate" /\ Effective) => last.hooks = <<last.node, Lifted>>

(***************************************************************************)
(* Properties of FixedBufferWriter (SpecBW)                                *)
(***************************************************************************)

\* Characters of a write of k characters that find room in the writer w.
Fit(w, k) ==
    IF w.capacity - w.attempted <= 0 THEN 0 ELSE Min(k, w.capacity - w.attempted)

\* C15: a write of k characters (write(char): k = 1) adds exactly k to
\* extent(), stores the characters that fit, in order, from the old extent
\* on and nothing at or beyond capacity(), and leaves error() true when a
\* character was discarded.
C15_WriteAccounting ==
    bwlast.op \in {"write_char", "write"} =>
        LET pre == bwlast.pre
            k   == bwlast.n
            fit == Fit(bwlast.pre, bwlast.n)
        IN  /\ k = Len(bwlast.data)
            /\ extent(bw) = extent(pre) + k
            /\ capacity(bw) = capacity(pre)
            /\ \A i \in Cells :
                   bw.mem[i] = IF pre.attempted <= i /\ i < pre.attempted + fit
                               THEN bwlast.data[(i - pre.attempted) + 1]
                               ELSE pre.mem[i]
            /\ \A i \in Cells : i >= capacity(pre) => bw.mem[i] = pre.mem[i]
            /\ fit < k => error(bw)

\* A block write of which one character fits and one is discarded.
C15_Witness ==
    /\ bwlast.op = "write"
    /\ bwlast.n = 2
    /\ bwlast.pre.buf # NullPtr
    /\ bwlast.pre.capacity - bwlast.pre.attempted = 1
    /\ bw.mem[bwlast.pre.attempted] = bwlast.data[1]
    /\ error(bw)

\* C16: aux_buffer() returns nullptr whenever remaining() is 0, and the
\* address of the next output byte, buffer start + size(), otherwise.
C16_AuxBufferNullWhenFull ==
    bwlast.op = "aux_buffer" =>
        bwlast.ret = IF remaining(bw) = 0 THEN NullPtr ELSE bw.buf + bw_size(bw)

\* C17: restore(n) on a writer in error leaves it out of error with extent()
\* equal to the former size() and capacity() larger by n; on a writer not
\* in error extent() stays and capacity() grows by n.
C17_RestoreClearsError ==
    bwlast.op = "restore" =>
        LET pre == bwlast.pre
        IN  /\ capacity(bw) = capacity(pre) + bwlast.n
            /\ error(pre) => ~error(bw) /\ extent(bw) = bw_size(pre)
            /\ ~error(pre) => extent(bw) = extent(pre)
            /\ bw.mem = pre.mem

\* A restore that found the writer in error and gave capacity back.
C17_Witness ==
    /\ bwlast.op = "restore"
    /\ bwlast.n > 0
    /\ error(bwlast.pre)
    /\ extent(bwlast.pre) > capacity(bwlast.pre) + bwlast.n
    /\ ~error(bw)

\* C18: shrink(n) lowers capacity() by exactly n and keeps extent(); when
\* the new capacity is below the former size() the writer is in error, and
\* a writer in error stays in error under every call but restore, drop
\* and clear.
C18_ShrinkError ==
    LET pre == bwlast.pre
    IN  /\ bwlast.op = "shrink" =>
               /\ capacity(bw) = capacity(pre) - bwlast.n
               /\ extent(bw) = extent(pre)
               /\ capacity(bw) < bw_size(pre) => error(bw)
        /\ (error(pre) /\ bwlast.op \notin {"none", "restore", "drop", "clear"})
               => error(bw)

\* A shrink that put a writer without error into error.
C18_Witness ==
    /\ bwlast.op = "shrink"
    /\ ~error(bwlast.pre)
    /\ bw_size(bwlast.pre) > 0
    /\ error(bw)

(***************************************************************************)
(* The uncle-red scenario (Spec)                                           *)
(***************************************************************************)

\* The scenario's keys 10, 5, 15 and 1, as the keys of Node in the same
\* order: 1 < 5 < 10 < 15 becomes 1 < 2 < 3 < 4.
Key1 == 1
Key5 == 2
Key10 == 3
Key15 == 4

\* The empty tree, then the first three inserts of the scenario.
Empty == [color |-> Fresh.color, parent |-> Fresh.parent, left |-> Fresh.left,
          right |-> Fresh.right, size |-> Fresh.size,
          ret |-> Nil, rot |-> 0, hooks |-> <<>>]
After10 == insert(Empty, Nil, Key10)
After5 == insert(After10, After10.ret, Key5)
After15 == insert(After5, After5.ret, Key15)

\* The last operation was the scenario's fourth insert.
ScenarioDone ==
    /\ last.op = "insert"
    /\ last.node = Key1
    /\ members = {Key1, Key5, Key10, Key15}
    /\ last.preroot = After15.ret
    /\ last.pre = Fields(After15)

\* C13: inserting 10, 5, 15, 1 into an empty tree gives root 10 BLACK with
\* children 5 and 15 both BLACK and 1 the RED left child of 5, and the
\* last insert performs no rotation.
C13_UncleRedScenario ==
    ScenarioDone =>
        /\ root = Key10
        /\ parent[Key10] = Nil
        /\ color[Key10] = BLACK
        /\ left[Key10] = Key5 /\ parent[Key5] = Key10
        /\ right[Key10] = Key15 /\ parent[Key15] = Key10
        /\ color[Key5] = BLACK
        /\ color[Key15] = BLACK
        /\ left[Key5] = Key1 /\ parent[Key1] = Key5
        /\ color[Key1] = RED
        /\ right[Key5] = Nil
        /\ left[Key1] = Nil /\ right[Key1] = Nil
        /\ left[Key15] = Nil /\ right[Key15] = Nil
        /\ last.rot = 0
        /\ last.pre.color[Key5] = RED /\ last.pre.color[Key15] = RED

\* The scenario ran: 1 went in under 5 while 5 and its sibling 15 were RED.
C13_Witness ==
    /\ ScenarioDone
    /\ last.mid.parent[Key1] = Key5
    /\ last.mid.color[Key5] = RED
    /\ last.mid.color[Key15] = RED
    /\ color[Key5] = BLACK

(***************************************************************************)
(* The loops step by step: every pass of the loop of                       *)
(* rebalance_after_insert, of the loop of rebalance_after_remove and of    *)
(* ripple_structure_fixup is a step of its own; run holds the locals.      *)
(***************************************************************************)

\* Number of parent links from n up to the root; -1 for no node.
RECURSIVE Depth(_, _, _)
Depth(t, n, fuel) ==
    IF n = Nil \/ fuel = 0 THEN 0 - 1 ELSE 1 + Depth(t, t.parent[n], fuel - 1)

\* One pass of the loop of rebalance_after_insert, entered with x and its
\* parent RED: the tree, the next x, and whether the pass left by break.
insert_iteration(t, x) ==
    IF t.parent[t.parent[x]] # Nil
    THEN LET g         == t.parent[t.parent[x]]
             child_dir == direction_of(t, g, t.parent[x])
             other_dir == flip(child_dir)
             y         == child_at(t, g, other_dir)
         IN  Bind(IF ColorOf(t, y) = RED
                  THEN insert_red_uncle(t, x, y)
                  ELSE insert_black_uncle(t, x, child_dir, other_dir),
                  LAMBDA s : [t |-> s.t, x |-> s.x, brk |-> FALSE,
                              branch |-> IF ColorOf(t, y) = RED THEN "red_uncle"
                                         ELSE "black_uncle"])
    ELSE [t |-> t, x |-> x, brk |-> TRUE, branch |-> "no_grandparent"]

remove_iteration_nobreak(t, n, p, d) ==
    IF n # Nil /\ ColorOf(t, n) = RED
    THEN [t |-> [t EXCEPT !.color[n] = BLACK], n |-> n, p |-> p, d |-> d,
          brk |-> TRUE, branch |-> "recolor"]
    ELSE LET right_side == (NONE = d /\ direction_of(t, p, n) = RIGHT) \/ RIGHT = d
             near == IF right_side THEN RIGHT ELSE LEFT
             far  == IF right_side THEN LEFT ELSE RIGHT
         IN  Bind(IF t.color[child_at(t, p, far)] = RED
                  THEN remove_red_sibling(t, p, child_at(t, p, far), near)
                  ELSE t, LAMBDA t1 :
             Bind(child_at(t1, p, far), LAMBDA w :
             IF ColorOf(t1, child_at(t1, w, near)) = BLACK
                    /\ ColorOf(t1, child_at(t1, w, far)) = BLACK
             THEN [t |-> [t1 EXCEPT !.color[w] = RED], n |-> p, p |-> t1.parent[p],
                   d |-> NONE, brk |-> FALSE, branch |-> "both_black"]
             ELSE [t |-> remove_terminal(t1, p, w, near, far), n |-> n, p |-> p,
                   d |-> d, brk |-> FALSE, branch |-> "terminal"]))

\* One pass of the loop of rebalance_after_remove, entered with parent p
\* not null: the tree, the next n, parent and d, and whether the pass left
\* by break.
remove_iteration(t, n, p, d) ==
    IF n # Nil /\ ColorOf(t, n) = RED
    THEN [t |-> [t EXCEPT !.color[n] = BLACK], n |-> n, p |-> p, d |-> d,
          brk |-> TRUE, branch |-> "recolor"]
    ELSE LET right_side == (NONE = d /\ direction_of(t, p, n) = RIGHT) \/ RIGHT = d
             near == IF right_side THEN RIGHT ELSE LEFT
             far  == IF right_side THEN LEFT ELSE RIGHT
         IN  Bind(IF t.color[child_at(t, p, far)] = RED
                  THEN remove_red_sibling(t, p, child_at(t, p, far), near)
                  ELSE t, LAMBDA t1 :
             Bind(child_at(t1, p, far), LAMBDA w :
             IF ColorOf(t1, child_at(t1, w, near)) = BLACK
                    /\ ColorOf(t1, child_at(t1, w, far)) = BLACK
             THEN [t |-> [t1 EXCEPT !.color[w] = RED], n |-> p, p |-> t1.parent[p],
                   d |-> NONE, brk |-> FALSE, branch |-> "both_black"]
             ELSE [t |-> remove_terminal(t1, p, w, near, far), n |-> n, p |-> p,
                   d |-> d, brk |-> TRUE, branch |-> "terminal"]))

ripple_step_stay(t, p) ==
    [t |-> structure_fixup(t, p), next |-> IF t.parent[p] # Nil THEN p ELSE Nil]

\* One call of ripple_structure_fixup: the hook on p, then the parent, on
\* which the call recurs, or no node when p is the root.
ripple_step(t, p) ==
    [t |-> structure_fixup(t, p), next |-> t.parent[p]]

\* The node fields of t go to the node objects; gone is the node a remove
\* took out, which its owner has back (or Nil).
StoreStep(t, gone) ==
    /\ color' = [t.color EXCEPT ![gone] = RED]
    /\ parent' = [t.parent EXCEPT ![gone] = Nil]
    /\ left' = [t.left EXCEPT ![gone] = Nil]
    /\ right' = [t.right EXCEPT ![gone] = Nil]
    /\ size' = [t.size EXCEPT ![gone] = 1]

Idle == run.pc = "idle"

\* Caller's insert up to the call of rebalance_after_insert on n.
BeginInsert(n) ==
    /\ Idle
    /\ n \notin members
    /\ \E t \in {link_leaf(Tree, root, n)} : StoreStep(t, Nil)
    /\ members' = members \cup {n}
    /\ run' = [IdleRun EXCEPT !.pc = "insert_loop", !.this = n, !.x = n]
    /\ UNCHANGED <<root, last, bw, bwlast>>

InsertIter ==
    /\ run.pc = "insert_loop"
    /\ ~run.brk
    /\ run.x # Nil /\ ColorOf(Tree, parent[run.x]) = RED
    /\ \E t0 \in {Tree} : \E s \in {insert_iteration(t0, run.x)} :
           /\ StoreStep(s.t, Nil)
           /\ run' = [run EXCEPT !.x = s.x, !.brk = s.brk, !.iter = "insert",
                                 !.rot = @ + s.t.rot, !.branch = s.branch,
                                 !.d0 = Depth(t0, run.x, MaxKey + 1),
                                 !.d1 = Depth(s.t, s.x, MaxKey + 1),
                                 !.red = (ColorOf(s.t, s.x) = RED)]
    /\ UNCHANGED <<root, members, last, bw, bwlast>>

\* The loop is over; ripple_structure_fixup is called on this.
InsertExit ==
    /\ run.pc = "insert_loop"
    /\ run.brk \/ run.x = Nil \/ ColorOf(Tree, parent[run.x]) # RED
    /\ run' = [IdleRun EXCEPT !.pc = "ripple", !.this = run.this, !.x = run.this]
    /\ UNCHANGED <<color, parent, left, right, size, root, members, last, bw, bwlast>>

\* remove up to the loop of rebalance_after_remove; a root with at most
\* one child returns at once.
BeginRemove(n) ==
    /\ Idle
    /\ n \in members
    /\ \E t0 \in {Tree} :
          IF IsRootCase(t0, n)
          THEN \E t \in {remove_root_case(t0, n)} :
                   /\ StoreStep(t, n)
                   /\ root' = t.ret
                   /\ run' = IdleRun
          ELSE \E s \in {remove_splice(t0, n)} :
                   /\ StoreStep(s.t, n)
                   /\ root' = root
                   /\ run' = IF s.remove_color = BLACK
                             THEN IF s.d # NONE
                                  THEN [IdleRun EXCEPT !.pc = "remove_loop",
                                            !.this = s.splice_node, !.x = Nil,
                                            !.p = s.splice_node, !.d = s.d]
                                  ELSE [IdleRun EXCEPT !.pc = "remove_loop",
                                            !.this = s.splice_node,
                                            !.x = s.splice_node,
                                            !.p = s.t.parent[s.splice_node]]
                             ELSE [IdleRun EXCEPT !.pc = "ripple",
                                       !.this = s.splice_node, !.x = s.splice_node]
    /\ members' = members \ {n}
    /\ UNCHANGED <<last, bw, bwlast>>

RemoveIter ==
    /\ run.pc = "remove_loop"
    /\ ~run.brk
    /\ run.p # Nil
    /\ \E t0 \in {Tree} : \E s \in {remove_iteration(t0, run.x, run.p, run.d)} :
           /\ StoreStep(s.t, Nil)
           /\ run' = [run EXCEPT !.x = s.n, !.p = s.p, !.d = s.d, !.brk = s.brk,
                                 !.iter = "remove",
                                 !.rot = @ + s.t.rot, !.branch = s.branch,
                                 !.d0 = Depth(t0, run.p, MaxKey + 1) + 1,
                                 !.d1 = Depth(s.t, s.p, MaxKey + 1) + 1,
                                 !.red = (s.n # Nil /\ ColorOf(s.t, s.n) = RED)]
    /\ UNCHANGED <<root, members, last, bw, bwlast>>

RemoveExit ==
    /\ run.pc = "remove_loop"
    /\ run.brk \/ run.p = Nil
    /\ run' = [IdleRun EXCEPT !.pc = "ripple", !.this = run.this, !.x = run.this]
    /\ UNCHANGED <<color, parent, left, right, size, root, members, last, bw, bwlast>>

\* ripple_structure_fixup on a node that has a parent.
RippleUp ==
    /\ run.pc = "ripple"
    /\ \E s \in {ripple_step(Tree, run.x)} :
           /\ s.next # Nil
           /\ StoreStep(s.t, Nil)
           /\ run' = [run EXCEPT !.x = s.next]
    /\ UNCHANGED <<root, members, last, bw, bwlast>>

\* ripple_structure_fixup on the root: it is returned, made BLACK, and the
\* member function returns it to the caller.
Return ==
    /\ run.pc = "ripple"
    /\ \E s \in {ripple_step(Tree, run.x)} :
           /\ s.next = Nil
           /\ StoreStep([s.t EXCEPT !.color[run.x] = BLACK], Nil)
    /\ root' = run.x
    /\ run' = IdleRun
    /\ UNCHANGED <<members, last, bw, bwlast>>

Running == InsertIter \/ InsertExit \/ RemoveIter \/ RemoveExit \/ RippleUp \/ Return

NextStep ==
    \/ \E n \in Node : BeginInsert(n)
    \/ \E n \in Node : BeginRemove(n)
    \/ InsertIter
    \/ InsertExit
    \/ RemoveIter
    \/ RemoveExit
    \/ RippleUp
    \/ Return

\* The code is sequential and never blocks: a member function that was
\* called keeps executing.
SpecStep == Init /\ [][NextStep]_vars /\ WF_vars(Running)

\* The last step was a pass of a rebalancing loop.
Passed == run.iter # "none"

\* The last pass ended with the working node no lower than before and RED.
SameDepthRed == run.iter = "remove" /\ run.d1 = run.d0 /\ run.red

\* Each pass of a rebalancing loop leaves by break or takes the working
\* node strictly closer to the root.
C14_EveryPassCloser ==
    Passed => (run.brk \/ run.d1 < run.d0)

\* C14: every insert and every remove that was called returns; each pass
\* of a rebalancing loop leaves by break, or takes the working node
\* strictly closer to the root, or (rebalance_after_remove) leaves it at
\* its depth and RED, and the pass after that leaves by break.
C14_Termination ==
    /\ [](Passed => (run.brk \/ run.d1 < run.d0 \/ SameDepthRed))
    /\ []((SameDepthRed /\ ~run.brk /\ run.p # Nil) =>
              remove_iteration(Tree, run.x, run.p, run.d).brk)
    /\ (~Idle ~> Idle)

\* A pass of the loop of rebalance_after_remove that rotated a RED sibling
\* down and then moved to the parent, now as deep as the node it left.
C14_Witness ==
    /\ run.pc = "remove_loop"
    /\ SameDepthRed
    /\ ~run.brk
    /\ run.p # Nil

(***************************************************************************)
(* rebalance_after_remove called for a RED removed color, on any node of   *)
(* a tree built by insert and remove.                                      *)
(***************************************************************************)

RebalanceRed(n, d) ==
    /\ Settled
    /\ n \in members
    /\ \E t0 \in {Tree} : \E t \in {rebalance_after_remove(t0, n, RED, d)} :
           /\ color' = t.color
           /\ parent' = t.parent
           /\ left' = t.left
           /\ right' = t.right
           /\ size' = t.size
           /\ last' = [op |-> "rebalance_red", node |-> n, pre |-> Fields(t0),
                       preroot |-> root, mid |-> Fields(t0),
                       rot |-> t.rot, hooks |-> t.hooks,
                       dir |-> d, ret |-> t.ret]
    /\ UNCHANGED <<root, members, bw, bwlast, run>>

NextRebalance ==
    \/ Settled /\ Next
    \/ \E n \in Node : \E d \in {LEFT, RIGHT, NONE} : RebalanceRed(n, d)

SpecRebalance == Init /\ [][NextRebalance]_vars

\* The nodes from n up to the root, n first.
RECURSIVE UpChain(_, _, _)
UpChain(t, n, fuel) ==
    IF n = Nil \/ fuel = 0 THEN <<>>
    ELSE <<n>> \o UpChain(t, t.parent[n], fuel - 1)

\* Node fields as the value the member functions work on.
AsTree(f) == [color |-> f.color, parent |-> f.parent, left |-> f.left,
              right |-> f.right, size |-> f.size,
              ret |-> Nil, rot |-> 0, hooks |-> <<>>]

\* The last operation was a remove that went through rebalance_after_remove
\* with a RED removed color.
RemovedRed ==
    /\ last.op = "remove"
    /\ ~IsRootCase(AsTree(last.pre), last.node)
    /\ remove_splice(AsTree(last.pre), last.node).remove_color = RED

\* C21: rebalance_after_remove with c RED changes no color and no parent,
\* left or right link; it invokes structure_fixup on the anchor and on each
\* of its ancestors, in that order, and returns the root.  Inside remove,
\* the tree after such a call is the tree after the splice, with the root
\* BLACK.
C21_RedRemovalNoop ==
    /\ last.op = "rebalance_red" =>
           /\ color = last.pre.color
           /\ parent = last.pre.parent
           /\ left = last.pre.left
           /\ right = last.pre.right
           /\ last.rot = 0
           /\ last.hooks = UpChain(last.pre, last.node, MaxKey + 1)
           /\ last.ret = last.preroot
    /\ RemovedRed =>
           /\ color = [last.mid.color EXCEPT ![root] = BLACK]
           /\ parent = last.mid.parent
           /\ left = last.mid.left
           /\ right = last.mid.right
           /\ last.rot = 0

\* The call on a RED node two levels below the root, as for a leaf.
C21_Witness ==
    /\ last.op = "rebalance_red"
    /\ last.dir # NONE
    /\ color[last.node] = RED
    /\ Len(last.hooks) = 3
    /\ last.ret = root

(***************************************************************************)
(* remove called a second time on the node the last remove took out.  The  *)
(* node object still holds the fields the first remove left in it.         *)
(***************************************************************************)

\* The node objects as they are, the removed node's stale fields included.
Raw == [color |-> color, parent |-> parent, left |-> left, right |-> right,
        size |-> size, ret |-> Nil, rot |-> 0, hooks |-> <<>>]

RemoveAgain ==
    /\ last.op = "remove"
    /\ \E t0 \in {Raw} : \E t \in {remove(t0, last.node)} :
           /\ Store(t)
           /\ last' = [op |-> "remove_again", node |-> last.node,
                       pre |-> Fields(t0), preroot |-> root, mid |-> Fields(t0),
                       rot |-> t.rot, hooks |-> t.hooks,
                       dir |-> NONE, ret |-> t.ret]
    /\ UNCHANGED <<members, bw, bwlast, run>>

NextDouble ==
    \/ Settled /\ Next
    \/ RemoveAgain

SpecDouble == Init /\ [][NextDouble]_vars

\* C22: a second remove of a node already removed changes no color and no
\* parent, left or right link of a node reachable from the root, and the
\* red-black invariants hold afterwards.
C22_DoubleRemoveNoop ==
    last.op = "remove_again" =>
        /\ \A n \in Reach(last.pre, last.preroot) :
               /\ color[n] = last.pre.color[n]
               /\ parent[n] = last.pre.parent[n]
               /\ left[n] = last.pre.left[n]
               /\ right[n] = last.pre.right[n]
        /\ C1_BlackHeightUniform
        /\ C2_NoRedRed
        /\ C3_RootBlack

(***************************************************************************)
(* Rotations and loop exits per operation (SpecStep)                       *)
(***************************************************************************)

\* C24: an insert performs at most 2 rotations and a remove at most 3; in
\* the loop of rebalance_after_remove the pass with both nephews BLACK is
\* the only one after which the loop goes on, and the pass that ends with
\* the rotation of parent leaves the loop.
C24_RotationBound ==
    /\ run.pc = "insert_loop" => run.rot <= 2
    /\ run.pc = "remove_loop" => run.rot <= 3
    /\ run.iter = "insert" => run.rot <= 2
    /\ run.iter = "remove" =>
           /\ run.branch \in {"recolor", "both_black", "terminal"}
           /\ ~run.brk <=> run.branch = "both_black"
           /\ run.branch = "terminal" => run.brk

\* A remove that rotated the RED sibling, then the sibling for its RED near
\* child, then parent: three rotations, and the loop is left.
C24_Witness ==
    /\ run.pc = "remove_loop"
    /\ run.iter = "remove"
    /\ run.branch = "terminal"
    /\ run.rot = 3
    /\ run.brk

(***************************************************************************)
(* Nodes the rebalancing loops go through a pointer to (SpecStep)          *)
(***************************************************************************)

\* rebalance_after_remove, one pass entered with parent p and n not RED:
\* the pointers it dereferences after parent, Nil for a null one.  The
\* sibling w (w->_color), w again after the RED sibling case
\* (w->child_at), then unless both nephews are BLACK: the near nephew when
\* the far one is BLACK (child_at(near)->_color), w after its rotation, and
\* the far nephew wfc (wfc->_color).
remove_reads(t, n, p, d) ==
    LET right_side == (NONE = d /\ direction_of(t, p, n) = RIGHT) \/ RIGHT = d
        near == IF right_side THEN RIGHT ELSE LEFT
        far  == IF right_side THEN LEFT ELSE RIGHT
        w0   == child_at(t, p, far)
    IN  IF w0 = Nil THEN {Nil}
        ELSE Bind(IF t.color[w0] = RED THEN remove_red_sibling(t, p, w0, near)
                  ELSE t, LAMBDA t1 :
             Bind(child_at(t1, p, far), LAMBDA w :
             IF w = Nil THEN {w0, Nil}
             ELSE IF ColorOf(t1, child_at(t1, w, near)) = BLACK
                         /\ ColorOf(t1, child_at(t1, w, far)) = BLACK
             THEN {w0, w}
             ELSE IF ColorOf(t1, child_at(t1, w, far)) = BLACK
             THEN Bind(rotate(t1, w, far), LAMBDA t3 :
                  Bind(child_at(t3, p, far), LAMBDA w2 :
                  {w0, w, child_at(t1, w, near), w2,
                   IF w2 = Nil THEN Nil ELSE child_at(t3, w2, far)}))
             ELSE {w0, w, child_at(t1, w, far)}))

\* rebalance_after_insert, the pass with a BLACK uncle: x->_parent and
\* x->_parent->_parent as dereferenced after x was straightened.
insert_reads(t, x, child_dir, other_dir) ==
    LET inner == child_at(t, t.parent[x], other_dir) = x
        x1    == IF inner THEN t.parent[x] ELSE x
    IN  Bind(IF inner THEN rotate(t, x1, child_dir) ELSE t, LAMBDA t1 :
        {t1.parent[x1],
         IF t1.parent[x1] = Nil THEN Nil ELSE t1.parent[t1.parent[x1]]})

\* A pass of the loop of rebalance_after_remove is about to run past the
\* test of n's color.
RemovePassDue ==
    /\ run.pc = "remove_loop"
    /\ ~run.brk
    /\ run.p # Nil
    /\ ~(run.x # Nil /\ color[run.x] = RED)

\* A pass of the loop of rebalance_after_insert is about to run with a
\* BLACK uncle.
InsertPassDue ==
    /\ run.pc = "insert_loop"
    /\ ~run.brk
    /\ run.x # Nil
    /\ ColorOf(Tree, parent[run.x]) = RED
    /\ parent[parent[run.x]] # Nil
    /\ ColorOf(Tree, child_at(Tree, parent[parent[run.x]],
                   flip(direction_of(Tree, parent[parent[run.x]], parent[run.x]))))
           # RED

\* C23: no pass of the rebalancing loops goes through a null pointer: the
\* sibling w, w's near child in the near-red case and the far nephew wfc
\* in the terminal case exist when rebalance_after_remove reads or writes
\* them, and so do the parent and grandparent recolored and rotated by
\* rebalance_after_insert.
C23_NoAbsentNode ==
    /\ RemovePassDue => Nil \notin remove_reads(Tree, run.x, run.p, run.d)
    /\ InsertPassDue =>
           LET g == parent[parent[run.x]]
               child_dir == direction_of(Tree, g, parent[run.x])
           IN  Nil \notin insert_reads(Tree, run.x, child_dir, flip(child_dir))

\* A pass about to run that will rotate three times: it reads the RED
\* sibling, the sibling after that rotation, its RED near child, the
\* sibling after the second rotation and the far nephew.
C23_Witness ==
    /\ RemovePassDue
    /\ remove_iteration(Tree, run.x, run.p, run.d).t.rot = 3
    /\ Cardinality(remove_reads(Tree, run.x, run.p, run.d)) = 3
    /\ Nil \notin remove_reads(Tree, run.x, run.p, run.d)

====
